---- MODULE Spec2Model ----
(***************************************************************************)
(* cypress-repeat-pro (src/index.js): run the Cypress command N times in a *)
(* row, optionally until it passes, optionally rerunning only the failed   *)
(* specs, optionally forcing through every iteration, and write a summary  *)
(* of the accumulated counts.                                              *)
(*                                                                         *)
(* Objects are modelled with a heap: `heap` is a sequence of option        *)
(* objects and a reference is an index into it, so that aliasing between   *)
(* the per-run options and the parsed options is expressible.  Strings     *)
(* built by concatenation are sequences of tokens.  An optional value is   *)
(* <<>> (undefined) or <<v>>.                                              *)
(***************************************************************************)
EXTENDS Integers, Sequences, FiniteSets, TLC

(* ---- bounds of the model ---- *)
\* largest value of -n that is explored
MaxN == 3
\* largest number of tests one Cypress run reports
MaxTests == 1

VARIABLES
    repeatNtimes,     \* args['-n'] || 1
    untilPasses,      \* args['--until-passes'] || false
    rerunFailedOnly,  \* args['--rerun-failed-only'] || false
    forceContinue,    \* args['--force'] || false
    anyTestFailed,
    totalTests,
    totalPassed,
    totalFailed,
    totalSkipped,
    heap,             \* the option objects, by reference
    allRunOptions,    \* sequence of references, one per run
    pc,               \* position in the promise chain
    k,                \* index mapSeries is at (0-based, as in the source)
    rejection,        \* <<>> or <<message>>: the rejection travelling down the chain
    summaryFile,      \* <<>> (no file) or <<content>>: cy-repeat-summary.txt
    console,          \* what the finally and catch blocks reported
    hist              \* history: what was started, returned and written

vars == <<repeatNtimes, untilPasses, rerunFailedOnly, forceContinue, anyTestFailed,
          totalTests, totalPassed, totalFailed, totalSkipped, heap, allRunOptions,
          pc, k, rejection, summaryFile, console, hist>>

modeVars == <<repeatNtimes, untilPasses, rerunFailedOnly, forceContinue>>
totalVars == <<totalTests, totalPassed, totalFailed, totalSkipped>>

(* ---- values ---- *)
Undefined == <<>>
Some(v) == <<v>>

\* relative paths of the spec files a run may report
Files == <<"a.cy.js", "b.cy.js">>

\* the reference of the object parseRunArguments resolves with
optionsRef == 1

\* the parsed CLI options the program may be started with
ParsedOptions ==
    { [env |-> <<>>, spec |-> <<"cypress/e2e/**">>, record |-> FALSE, group |-> <<>>,
       force |-> FALSE],
      [env |-> <<[key |-> "FOO", val |-> 1]>>, spec |-> <<"cypress/e2e/**">>,
       record |-> TRUE, group |-> <<"grp">>, force |-> FALSE] }

(* ---- pure helpers ---- *)
\* x || 0 for an optional number
OrZero(x) == IF x = Undefined THEN 0 ELSE x[1]

\* Array.prototype.join(',')
RECURSIVE JoinComma(_)
JoinComma(s) ==
    IF Len(s) = 0 THEN <<>>
    ELSE IF Len(s) = 1 THEN <<s[1]>>
    ELSE <<s[1], ",">> \o JoinComma(Tail(s))

\* the files a comma-separated spec string names
SpecFiles(str) == {str[i] : i \in {j \in 1..Len(str) : str[j] # ","}}

\* faulty variant: the filter keeps every run
FilterFailed_KeepAll(runs) == runs

\* Array.prototype.filter, on the runs of a result
RECURSIVE FilterFailed(_)
FilterFailed(runs) ==
    IF Len(runs) = 0 THEN <<>>
    ELSE IF Head(runs).stats.failures # 0
         THEN <<Head(runs)>> \o FilterFailed(Tail(runs))
         ELSE FilterFailed(Tail(runs))

\* testResults.runs.filter(failures != 0).map(spec.relative).join(',')
FailedSpecs(runs) ==
    LET failed == FilterFailed(runs)
    IN  JoinComma([i \in 1..Len(failed) |-> failed[i].spec.relative])

\* faulty variant: no copy is made, the same object is handed back
clone_Alias(h, ref) == <<h, ref>>

\* const clone = (x) => JSON.parse(JSON.stringify(x)): a fresh object with the
\* same contents; the result is <<heap', reference>>
clone(h, ref) == <<Append(h, h[ref]), Len(h) + 1>>

\* faulty variant: the run index is written zero-based
envVariables_ZeroBased(n, kk) ==
    <<[key |-> "cypress_repeat_n", val |-> n], [key |-> "cypress_repeat_k", val |-> kk]>>

\* `cypress_repeat_n=${repeatNtimes},cypress_repeat_k=${k + 1}`
envVariables(n, kk) ==
    <<[key |-> "cypress_repeat_n", val |-> n], [key |-> "cypress_repeat_k", val |-> kk + 1]>>

\* one pass of the for loop body of the first .then, for index kk
LoopBody(h, all, kk, n, force) ==
    LET c == clone(h, optionsRef)
        h1 == c[1]
        ref == c[2]
        env1 == IF Len(h1[ref].env) > 0
                THEN h1[ref].env \o envVariables(n, kk)
                ELSE envVariables(n, kk)
        h2 == [h1 EXCEPT ![ref].env = env1]
        h3 == IF h2[optionsRef].record /\ Len(h2[optionsRef].group) > 0
              THEN LET h3a == [h2 EXCEPT ![ref].group = h2[optionsRef].group]
                   IN  IF Len(h3a[ref].group) > 0 /\ n > 1
                       THEN [h3a EXCEPT ![ref].group = @ \o <<[k |-> kk + 1, of |-> n]>>]
                       ELSE h3a
              ELSE h2
        h4 == IF force THEN [h3 EXCEPT ![ref].force = TRUE] ELSE h3
    IN  <<h4, Append(all, ref)>>

\* for (let k = 0; k < repeatNtimes; k++) { ... }
RECURSIVE BuildLoop(_, _, _, _, _)
BuildLoop(h, all, kk, n, force) ==
    IF kk < n
    THEN LET r == LoopBody(h, all, kk, n, force)
         IN  BuildLoop(r[1], r[2], kk + 1, n, force)
    ELSE <<h, all>>

(* ---- what cypress.run may resolve with ---- *)
\* totals of one run: tests = passed + failed + skipped, at most MaxTests tests
RunTotals ==
    { t \in [totalTests : 0..MaxTests, totalPassed : 0..MaxTests,
             totalFailed : 0..MaxTests, totalSkipped : 0..MaxTests] :
        t.totalTests = t.totalPassed + t.totalFailed + t.totalSkipped }

\* the per-file outcomes of one run: a subsequence of Files, each file with no
\* failure or with one
RECURSIVE RunsFrom(_)
RunsFrom(i) ==
    IF i > Len(Files) THEN {<<>>}
    ELSE LET rest == RunsFrom(i + 1)
         IN  rest \cup
             { <<[spec |-> [relative |-> Files[i]], stats |-> [failures |-> f]]>> \o r :
                 f \in 0..1, r \in rest }

RunsChoices == RunsFrom(1)

\* a run that completed (CypressRunResult)
FinishedResults ==
    { [status |-> "finished", failures |-> Undefined,
       totalTests |-> Some(t.totalTests), totalPassed |-> Some(t.totalPassed),
       totalFailed |-> Some(t.totalFailed), totalSkipped |-> Some(t.totalSkipped),
       runs |-> Some(rs)] : t \in RunTotals, rs \in RunsChoices }

\* Cypress could not run (CypressFailedRunResult): status, failures and message only
FailedResults ==
    { [status |-> "failed", failures |-> Some(f),
       totalTests |-> Undefined, totalPassed |-> Undefined,
       totalFailed |-> Undefined, totalSkipped |-> Undefined,
       runs |-> Undefined] : f \in 0..1 }

\* a result marked failed, with failures, that still carries totals and per-file
\* outcomes (none of its tests passed or was skipped)
FailedWithCounts ==
    { [r EXCEPT !.status = "failed", !.failures = Some(1)] :
        r \in {x \in FinishedResults : x.totalPassed = Some(0) /\ x.totalSkipped = Some(0)} }

TestResults == FinishedResults \cup FailedResults \cup FailedWithCounts

(* ---- history of the run (observations, never read by the program) ---- *)
NoHist ==
    [started |-> <<>>,          \* attempt numbers (k + 1) in the order cypress.run was called
     ranWith |-> <<>>,          \* the options each call of cypress.run was given
     inFlight |-> 0,            \* calls of cypress.run not yet settled
     nReturned |-> 0,           \* results cypress.run resolved with
     sum |-> [tests |-> 0, passed |-> 0, failed |-> 0, skipped |-> 0],
     everFailedTests |-> FALSE, \* some result had a nonzero totalFailed
     everPassed |-> FALSE,      \* some finished result had no failed tests
     everStatusFailed |-> FALSE,\* some result had status failed with failures
     everZeroFailed |-> FALSE,  \* some result (of any status) showed no failed test
     lastFailing |-> Undefined, \* files with failures in the latest result that had its
                                \* runs read (rerun-failed-only, not the last run)
     threwAt |-> 0,             \* attempt number whose cypress.run rejected, 0 if none
     finalized |-> 0,           \* times the finally block ran
     writes |-> 0]              \* times the summary file was written

\* files of a result whose failure count is not zero
FailingFiles(res) ==
    IF res.runs = Undefined THEN Undefined
    ELSE Some({ res.runs[1][i].spec.relative :
                  i \in {j \in 1..Len(res.runs[1]) : res.runs[1][j].stats.failures > 0} })

Observe(h, res, runsRead) ==
    [h EXCEPT !.inFlight = @ - 1,
              !.nReturned = @ + 1,
              !.sum = [tests |-> @.tests + OrZero(res.totalTests),
                       passed |-> @.passed + OrZero(res.totalPassed),
                       failed |-> @.failed + OrZero(res.totalFailed),
                       skipped |-> @.skipped + OrZero(res.totalSkipped)],
              !.everFailedTests = @ \/ OrZero(res.totalFailed) # 0,
              !.everPassed = @ \/ (res.status = "finished" /\ OrZero(res.totalFailed) = 0),
              !.everStatusFailed = @ \/ (res.status = "failed" /\ OrZero(res.failures) # 0),
              !.everZeroFailed = @ \/ OrZero(res.totalFailed) = 0,
              !.lastFailing = IF runsRead THEN FailingFiles(res) ELSE Undefined]

(* ---- initial state: the arguments are parsed, an old summary file is gone ---- *)
Init ==
    /\ repeatNtimes \in 1..MaxN
    /\ untilPasses \in BOOLEAN
    /\ rerunFailedOnly \in BOOLEAN
    /\ forceContinue \in BOOLEAN
    /\ anyTestFailed = FALSE
    /\ totalTests = 0
    /\ totalPassed = 0
    /\ totalFailed = 0
    /\ totalSkipped = 0
    /\ \E o \in ParsedOptions : heap = <<o>>
    /\ allRunOptions = <<>>
    /\ pc = "parsed"
    /\ k = 0
    /\ rejection = Undefined
    /\ summaryFile = Undefined
    /\ console = <<>>
    /\ hist = NoHist

\* .then((options) => { ... return allRunOptions; })
BuildRunOptions ==
    /\ pc = "parsed"
    /\ LET r == BuildLoop(heap, <<>>, 0, repeatNtimes, forceContinue)
       IN  /\ heap' = r[1]
           /\ allRunOptions' = r[2]
    /\ pc' = "mapSeries"
    /\ UNCHANGED <<modeVars, totalVars, anyTestFailed, k, rejection, summaryFile, console, hist>>

\* mapSeries calls the iterator for item k: the banner is logged and
\* cypress.run(runOptions) is called
StartRun ==
    /\ pc = "mapSeries"
    /\ k < Len(allRunOptions)
    /\ pc' = "running"
    /\ hist' = [hist EXCEPT !.started = Append(@, k + 1),
                            !.ranWith = Append(@, heap[allRunOptions[k + 1]]),
                            !.inFlight = @ + 1]
    /\ UNCHANGED <<modeVars, totalVars, anyTestFailed, heap, allRunOptions, k, rejection,
                   summaryFile, console>>

(* ---- onTestResults ---- *)
\* faulty variant: the patch is written to the options of the current run
RerunBlock_PatchCurrent(h, all, kk, isLastRun, testResults, rerun, force) ==
    IF rerun /\ ~isLastRun
    THEN IF testResults.runs = Undefined
         THEN [heap |-> h, leave |-> "throw"]
         ELSE LET failedSpecs == FailedSpecs(testResults.runs[1])
              IN  IF Len(failedSpecs) # 0
                  THEN [heap |-> [h EXCEPT ![all[kk + 1]].spec = failedSpecs], leave |-> "on"]
                  ELSE IF ~force
                       THEN [heap |-> h, leave |-> "resolve"]
                       ELSE [heap |-> h, leave |-> "on"]
    ELSE [heap |-> h, leave |-> "on"]

\* faulty variant: with no failed spec the next run inherits the spec of this one
RerunBlock_CarryOver(h, all, kk, isLastRun, testResults, rerun, force) ==
    IF rerun /\ ~isLastRun
    THEN IF testResults.runs = Undefined
         THEN [heap |-> h, leave |-> "throw"]
         ELSE LET failedSpecs == FailedSpecs(testResults.runs[1])
              IN  IF Len(failedSpecs) # 0
                  THEN [heap |-> [h EXCEPT ![all[kk + 2]].spec = failedSpecs], leave |-> "on"]
                  ELSE [heap |-> [h EXCEPT ![all[kk + 2]].spec = h[all[kk + 1]].spec],
                        leave |-> IF ~force THEN "resolve" ELSE "on"]
    ELSE [heap |-> h, leave |-> "on"]

\* faulty variant: with no failed spec the handler does not return, whatever --force
RerunBlock_NoEarlyReturn(h, all, kk, isLastRun, testResults, rerun, force) ==
    IF rerun /\ ~isLastRun
    THEN IF testResults.runs = Undefined
         THEN [heap |-> h, leave |-> "throw"]
         ELSE LET failedSpecs == FailedSpecs(testResults.runs[1])
              IN  IF Len(failedSpecs) # 0
                  THEN [heap |-> [h EXCEPT ![all[kk + 2]].spec = failedSpecs], leave |-> "on"]
                  ELSE [heap |-> h, leave |-> "on"]
    ELSE [heap |-> h, leave |-> "on"]

\* the rerun-failed-only block: what it does to the heap and how it leaves
RerunBlock(h, all, kk, isLastRun, testResults, rerun, force) ==
    IF rerun /\ ~isLastRun
    THEN IF testResults.runs = Undefined
         THEN [heap |-> h, leave |-> "throw"]   \* undefined.filter: TypeError
         ELSE LET failedSpecs == FailedSpecs(testResults.runs[1])
              IN  IF Len(failedSpecs) # 0
                  THEN [heap |-> [h EXCEPT ![all[kk + 2]].spec = failedSpecs], leave |-> "on"]
                  ELSE IF ~force
                       THEN [heap |-> h, leave |-> "resolve"]
                       ELSE [heap |-> h, leave |-> "on"]
    ELSE [heap |-> h, leave |-> "on"]

\* faulty variant: a failed status rejects whatever --force says
StatusBlock_NoForceGate(testResults, force) ==
    IF testResults.status = "failed" /\ OrZero(testResults.failures) # 0
    THEN [failed |-> TRUE, leave |-> "reject", message |-> "Test results indicate failures"]
    ELSE [failed |-> FALSE, leave |-> "on", message |-> ""]

\* if (testResults.status === 'failed') { if (testResults.failures) { ... } }
StatusBlock(testResults, force) ==
    IF testResults.status = "failed" /\ OrZero(testResults.failures) # 0
    THEN [failed |-> TRUE,
          leave |-> IF ~force THEN "reject" ELSE "on",
          message |-> "Test results indicate failures"]
    ELSE [failed |-> FALSE, leave |-> "on", message |-> ""]

\* faulty variant: without --until-passes a failing run rejects only when it is the last
PolicyBlock_LastOnly(testResults, kk, n, isLastRun, until, rerun, force) ==
    IF until
    THEN IF OrZero(testResults.totalFailed) = 0
         THEN [leave |-> "reject", message |-> "No failures detected, exiting with success."]
         ELSE IF ~force /\ kk = n - 1
              THEN [leave |-> "reject", message |-> "No more attempts left"]
              ELSE [leave |-> "return", message |-> ""]
    ELSE IF OrZero(testResults.totalFailed) # 0 /\ ~force /\ isLastRun
         THEN [leave |-> "reject", message |-> "Failures detected and conditions met"]
         ELSE [leave |-> "return", message |-> ""]

\* faulty variant: with --until-passes the last run is looked for one index too far
PolicyBlock_LastOffByOne(testResults, kk, n, isLastRun, until, rerun, force) ==
    IF until
    THEN IF OrZero(testResults.totalFailed) = 0
         THEN [leave |-> "reject", message |-> "No failures detected, exiting with success."]
         ELSE IF ~force /\ kk = n
              THEN [leave |-> "reject", message |-> "No more attempts left"]
              ELSE [leave |-> "return", message |-> ""]
    ELSE IF OrZero(testResults.totalFailed) # 0 /\ ~force /\ (~rerun \/ isLastRun)
         THEN [leave |-> "reject", message |-> "Failures detected and conditions met"]
         ELSE [leave |-> "return", message |-> ""]

\* faulty variant: without --until-passes failed tests reject on any run, also
\* with --rerun-failed-only
PolicyBlock_RerunIgnored(testResults, kk, n, isLastRun, until, rerun, force) ==
    IF until
    THEN IF OrZero(testResults.totalFailed) = 0
         THEN [leave |-> "reject", message |-> "No failures detected, exiting with success."]
         ELSE IF ~force /\ kk = n - 1
              THEN [leave |-> "reject", message |-> "No more attempts left"]
              ELSE [leave |-> "return", message |-> ""]
    ELSE IF OrZero(testResults.totalFailed) # 0 /\ ~force
         THEN [leave |-> "reject", message |-> "Failures detected and conditions met"]
         ELSE [leave |-> "return", message |-> ""]

\* faulty variant: without --until-passes the test on totalFailed is inverted
PolicyBlock_Inverted(testResults, kk, n, isLastRun, until, rerun, force) ==
    IF until
    THEN IF OrZero(testResults.totalFailed) = 0
         THEN [leave |-> "reject", message |-> "No failures detected, exiting with success."]
         ELSE IF ~force /\ kk = n - 1
              THEN [leave |-> "reject", message |-> "No more attempts left"]
              ELSE [leave |-> "return", message |-> ""]
    ELSE IF OrZero(testResults.totalFailed) = 0 /\ ~force /\ (~rerun \/ isLastRun)
         THEN [leave |-> "reject", message |-> "Failures detected and conditions met"]
         ELSE [leave |-> "return", message |-> ""]

\* if (untilPasses) { ... } else { ... }
PolicyBlock(testResults, kk, n, isLastRun, until, rerun, force) ==
    IF until
    THEN IF OrZero(testResults.totalFailed) = 0
         THEN [leave |-> "reject", message |-> "No failures detected, exiting with success."]
         ELSE IF ~force /\ kk = n - 1
              THEN [leave |-> "reject", message |-> "No more attempts left"]
              ELSE [leave |-> "return", message |-> ""]
    ELSE IF OrZero(testResults.totalFailed) # 0 /\ ~force /\ (~rerun \/ isLastRun)
         THEN [leave |-> "reject", message |-> "Failures detected and conditions met"]
         ELSE [leave |-> "return", message |-> ""]

\* the whole handler: the new heap, the new anyTestFailed, and the promise it
\* gives back to mapSeries (settled <<>> = fulfilled, <<m>> = rejected with m)
onTestResults(h, all, kk, n, testResults, until, rerun, force, failedBefore) ==
    LET isLastRun == kk = n - 1
        rb == RerunBlock(h, all, kk, isLastRun, testResults, rerun, force)
        sb == StatusBlock(testResults, force)
        pb == PolicyBlock(testResults, kk, n, isLastRun, until, rerun, force)
    IN  IF rb.leave = "throw"
        THEN [heap |-> rb.heap, anyTestFailed |-> failedBefore,
              settled |-> Some("Cannot read properties of undefined (reading 'filter')")]
        ELSE IF rb.leave = "resolve"
        THEN [heap |-> rb.heap, anyTestFailed |-> failedBefore, settled |-> Undefined]
        ELSE IF sb.leave = "reject"
        THEN [heap |-> rb.heap, anyTestFailed |-> TRUE, settled |-> Some(sb.message)]
        ELSE IF pb.leave = "reject"
        THEN [heap |-> rb.heap, anyTestFailed |-> failedBefore \/ sb.failed,
              settled |-> Some(pb.message)]
        ELSE [heap |-> rb.heap, anyTestFailed |-> failedBefore \/ sb.failed,
              settled |-> Undefined]

\* faulty variant: the total is assigned, not added to
Accumulate_Assign(total, x) == OrZero(x)

\* totalX += testResults.totalX || 0
Accumulate(total, x) == total + OrZero(x)

\* faulty variant: a fulfilled item is handed to the iterator again
NextItem_Same(kk) == kk

\* the item Bluebird.mapSeries goes to when the promise of item kk is fulfilled
NextItem(kk) == kk + 1

\* cypress.run(runOptions) resolves with testResults and .then(onTestResults) runs;
\* mapSeries goes to the next item, or settles when there is none or on a rejection
RunResolves(testResults) ==
    /\ pc = "running"
    /\ totalTests' = Accumulate(totalTests, testResults.totalTests)
    /\ totalPassed' = Accumulate(totalPassed, testResults.totalPassed)
    /\ totalFailed' = Accumulate(totalFailed, testResults.totalFailed)
    /\ totalSkipped' = Accumulate(totalSkipped, testResults.totalSkipped)
    /\ LET out == onTestResults(heap, allRunOptions, k, Len(allRunOptions), testResults,
                                untilPasses, rerunFailedOnly, forceContinue, anyTestFailed)
       IN  /\ heap' = out.heap
           /\ anyTestFailed' = out.anyTestFailed
           /\ rejection' = out.settled
           /\ IF out.settled = Undefined
              THEN /\ k' = NextItem(k)
                   /\ pc' = IF NextItem(k) < Len(allRunOptions) THEN "mapSeries"
                            ELSE "finally"
              ELSE /\ k' = k
                   /\ pc' = "finally"
    /\ hist' = Observe(hist, testResults, rerunFailedOnly /\ k + 1 < Len(allRunOptions))
    /\ UNCHANGED <<modeVars, allRunOptions, summaryFile, console>>

\* cypress.run(runOptions) rejects: onTestResults is not called, mapSeries rejects
RunRejects ==
    /\ pc = "running"
    /\ rejection' = Some("cypress.run rejected")
    /\ pc' = "finally"
    /\ hist' = [hist EXCEPT !.inFlight = @ - 1, !.threwAt = k + 1]
    /\ UNCHANGED <<modeVars, totalVars, anyTestFailed, heap, allRunOptions, k,
                   summaryFile, console>>

(* ---- .finally and .catch ---- *)
\* the text of the summary
resultSummary(tests, passed, failed, skipped) ==
    << <<"***** Repeat Run Summary *****">>,
       <<"Total Tests with repeat: ", tests>>,
       <<"Total Passed: ", passed>>,
       <<"Total Failed: ", failed>>,
       <<"Total Skipped: ", skipped>>,
       <<"*****************************">> >>

\* what the finally block announces after writing the summary
FinalMessage(failed) ==
    IF failed THEN "Exiting with failure due to test failures."
    ELSE "finished run(s) successfully"

\* faulty variant: the block is chained with .then, so a rejection skips it
Finally_SkippedOnRejection ==
    /\ pc = "finally"
    /\ IF rejection = Undefined
       THEN /\ summaryFile' =
                 Some(resultSummary(totalTests, totalPassed, totalFailed, totalSkipped))
            /\ console' = Append(console, FinalMessage(anyTestFailed))
            /\ pc' = "done"
            /\ hist' = [hist EXCEPT !.finalized = @ + 1, !.writes = @ + 1]
       ELSE /\ pc' = "catch"
            /\ UNCHANGED <<summaryFile, console, hist>>
    /\ UNCHANGED <<modeVars, totalVars, anyTestFailed, heap, allRunOptions, k, rejection>>

\* .finally(() => { ... }): the summary is built, printed and written, and the
\* closing message printed; a rejection then travels on to .catch
Finally ==
    /\ pc = "finally"
    /\ summaryFile' = Some(resultSummary(totalTests, totalPassed, totalFailed, totalSkipped))
    /\ console' = Append(console, FinalMessage(anyTestFailed))
    /\ pc' = IF rejection = Undefined THEN "done" ELSE "catch"
    /\ hist' = [hist EXCEPT !.finalized = @ + 1, !.writes = @ + 1]
    /\ UNCHANGED <<modeVars, totalVars, anyTestFailed, heap, allRunOptions, k, rejection>>

\* faulty variant: the exit with failure is announced whatever --force says
CatchMessage_NoForceGate(force) == <<"Error", "Exiting with failure due to an error.">>

\* what the catch block prints: 'Error: <message>', then the exit line
CatchMessage(force) ==
    IF ~force THEN <<"Error", "Exiting with failure due to an error.">>
    ELSE <<"Error">>

Catch ==
    /\ pc = "catch"
    /\ console' = console \o CatchMessage(forceContinue)
    /\ pc' = "done"
    /\ UNCHANGED <<modeVars, totalVars, anyTestFailed, heap, allRunOptions, k, rejection,
                   summaryFile, hist>>

Next ==
    \/ BuildRunOptions
    \/ StartRun
    \/ \E testResults \in TestResults : RunResolves(testResults)
    \/ RunRejects
    \/ Finally
    \/ Catch

Spec == Init /\ [][Next]_vars

\* every promise of the chain settles: cypress.run resolves or rejects, and the
\* callbacks of settled promises are run
FairSpec == Spec /\ WF_vars(Next)

(* ======================= properties ======================= *)
Range(s) == {s[i] : i \in 1..Len(s)}
UpTo(n) == [i \in 1..n |-> i]

DefaultMode == ~untilPasses /\ ~rerunFailedOnly /\ ~forceContinue

\* the run was announced as exiting with failure (by the finally or the catch block)
ReportsFailure ==
    \/ "Exiting with failure due to test failures." \in Range(console)
    \/ "Exiting with failure due to an error." \in Range(console)
\* the catch block printed 'Error: ...'
ReportsError == "Error" \in Range(console)
\* the finally block announced that the runs finished successfully
ReportsSuccess == "finished run(s) successfully" \in Range(console)

\* the numbers the written summary shows, in the order tests, passed, failed, skipped
SummaryCounts == <<summaryFile[1][2][2], summaryFile[1][3][2], summaryFile[1][4][2],
                   summaryFile[1][5][2]>>
SumCounts == <<hist.sum.tests, hist.sum.passed, hist.sum.failed, hist.sum.skipped>>

\* every call of cypress.run made so far has resolved and no later one was made
NoLaterRun == pc \in {"finally", "catch", "done"} /\ Len(hist.started) = hist.nReturned

(* C1: in default mode, once a result shows failed tests no further run is started,
   and when the chain has ended the run was announced as exiting with failure *)
C1_DefaultFailureStops ==
    (DefaultMode /\ hist.everFailedTests)
        => /\ NoLaterRun
           /\ hist.started = UpTo(hist.nReturned)
           /\ (pc = "done" => ReportsFailure)

\* a first run with failed tests and status finished ended a 3-run orchestration
C1_Witness ==
    /\ DefaultMode /\ repeatNtimes = 3 /\ pc = "done"
    /\ hist.everFailedTests /\ ~hist.everStatusFailed
    /\ hist.started = <<1>> /\ ReportsFailure

(* C2: with --force alone, when some result shows failed tests and cypress.run never
   rejects, all N runs are made, the run is announced as a failure and the summary
   shows the sums over all N results *)
C2_ForceRunsAllAndFails ==
    (forceContinue /\ ~untilPasses /\ ~rerunFailedOnly /\ hist.everFailedTests
       /\ hist.threwAt = 0 /\ pc = "done")
        => /\ hist.started = UpTo(repeatNtimes)
           /\ hist.nReturned = repeatNtimes
           /\ SummaryCounts = SumCounts
           /\ ReportsFailure

(* C3: with --until-passes (no rerun-failed-only), once a finished result shows no
   failed test no further run is started and the ended chain reports success,
   neither a failure nor an error *)
C3_UntilPassesSuccess ==
    (untilPasses /\ ~rerunFailedOnly /\ hist.everPassed /\ ~hist.everStatusFailed)
        => /\ NoLaterRun
           /\ (pc = "done" => ReportsSuccess /\ ~ReportsFailure /\ ~ReportsError)

(* C4: with --rerun-failed-only, the options a run is started with select exactly the
   files that had failures in the preceding result, when there were any *)
C4_RerunExactlyFailed ==
    (rerunFailedOnly /\ pc = "running" /\ hist.lastFailing # Undefined
       /\ hist.lastFailing # Some({}))
        => Some(SpecFiles(hist.ranWith[Len(hist.ranWith)].spec)) = hist.lastFailing

\* the third run is started restricted to the one file that failed in the second
C4_Witness ==
    /\ rerunFailedOnly /\ pc = "running" /\ hist.started = <<1, 2, 3>>
    /\ hist.lastFailing = Some({"b.cy.js"})
    /\ hist.ranWith[2].spec = <<"a.cy.js", ",", "b.cy.js">>
    /\ hist.ranWith[3].spec = <<"b.cy.js">>

\* before the finally block nothing is written; after it, exactly one write
C5_State ==
    /\ hist.finalized <= 1 /\ hist.writes = hist.finalized
    /\ (pc \in {"parsed", "mapSeries", "running", "finally"}
          => hist.finalized = 0 /\ summaryFile = Undefined)
    /\ (pc \in {"catch", "done"}
          => hist.finalized = 1 /\ summaryFile # Undefined /\ hist.inFlight = 0)

(* C5: on every stop path the finally block runs exactly once, after the last run
   that was started has settled, and the summary is written exactly once, by the
   finally block and by no earlier step; no run is started afterwards *)
C5_FinalizeOnce ==
    /\ C5_State
    /\ [][ /\ C5_State'
           /\ (hist.writes' # hist.writes => pc = "finally")
           /\ (hist.finalized >= 1 => hist.started' = hist.started) ]_vars

\* the chain ended after cypress.run rejected on the second run
C5_Witness ==
    /\ pc = "done" /\ hist.threwAt = 2 /\ hist.finalized = 1 /\ hist.writes = 1

(* C6 as stated: when cypress.run rejects on run k, run k is not repeated, no later
   run is started, the summary shows the sums over runs 1..k-1 and the run is
   announced as exiting with failure, in every mode *)
C6_InfraErrorFailsAlways ==
    (hist.threwAt # 0 /\ pc = "done")
        => /\ hist.started = UpTo(hist.threwAt)
           /\ hist.nReturned = hist.threwAt - 1
           /\ SummaryCounts = SumCounts
           /\ ReportsFailure

(* C6 amended: when cypress.run rejects on run k, run k is not repeated, no later run
   is started, the summary shows the sums over runs 1..k-1 and the catch block
   reports the error; the exit with failure is announced exactly when --force is
   not set, unless a failed status was recorded before *)
C6_InfraErrorReported ==
    /\ (hist.threwAt # 0 => hist.started = UpTo(hist.threwAt)
                            /\ hist.nReturned = hist.threwAt - 1
                            /\ pc \in {"finally", "catch", "done"})
    /\ (hist.threwAt # 0 /\ pc = "done")
        => /\ SummaryCounts = SumCounts
           /\ ReportsError
           /\ (ReportsFailure <=> (~forceContinue \/ anyTestFailed))

\* cypress.run rejected on the third run under --force after two counted runs
C6_Witness ==
    /\ pc = "done" /\ hist.threwAt = 3 /\ forceContinue /\ ~anyTestFailed
    /\ hist.sum.tests = 2 /\ SummaryCounts = SumCounts /\ ReportsError /\ ~ReportsFailure

(* C7: in default mode, when no result has a failed status or failed tests, the runs
   are made in order 1..N and the ended chain reports success and nothing else *)
C7_DefaultAllPass ==
    (DefaultMode /\ ~hist.everFailedTests /\ ~hist.everStatusFailed /\ hist.threwAt = 0)
        => /\ hist.started = UpTo(Len(hist.started))
           /\ (pc \in {"finally", "catch", "done"} => hist.nReturned = repeatNtimes)
           /\ (pc = "done" => hist.started = UpTo(repeatNtimes) /\ console = <<FinalMessage(FALSE)>>)

\* three passing runs ended with the success report alone
C7_Witness ==
    /\ DefaultMode /\ repeatNtimes = 3 /\ pc = "done" /\ hist.nReturned = 3
    /\ ~hist.everFailedTests /\ ~hist.everStatusFailed /\ totalPassed = 3
    /\ ReportsSuccess /\ ~ReportsError /\ ~ReportsFailure

\* the four totals are the sums over the results returned so far
C8_State ==
    /\ <<totalTests, totalPassed, totalFailed, totalSkipped>> = SumCounts
    /\ (summaryFile # Undefined => SummaryCounts = SumCounts)

(* C8: at every point each total is the sum of its field over the results returned
   so far (the one that stops the loop included), no total ever decreases, and the
   summary shows these totals *)
C8_TotalsAreSums ==
    /\ C8_State
    /\ [][ /\ C8_State'
           /\ totalTests' >= totalTests /\ totalPassed' >= totalPassed
           /\ totalFailed' >= totalFailed /\ totalSkipped' >= totalSkipped ]_vars

\* the second result stopped the loop and its counts are in the totals and the summary
C8_Witness ==
    /\ pc = "done" /\ rejection # Undefined /\ hist.threwAt = 0 /\ hist.nReturned = 2
    /\ repeatNtimes = 3 /\ totalTests = 2 /\ totalFailed = 1 /\ totalSkipped = 1
    /\ SummaryCounts = <<2, 0, 1, 1>>

(* C9: runs are started in the order 1, 2, ... with at most one in flight; a run is
   started only when every earlier result has been handled, and the options a run
   was started with are never changed afterwards (a patch reaches run k+1 before it
   starts) *)
C9_Sequential ==
    /\ hist.started = UpTo(Len(hist.started))
    /\ hist.inFlight = (IF pc = "running" THEN 1 ELSE 0)
    /\ Len(hist.started) = hist.nReturned + hist.inFlight + (IF hist.threwAt # 0 THEN 1 ELSE 0)
    /\ (pc = "running" => k + 1 = Len(hist.started) /\ hist.nReturned = k)
    /\ \A i \in 1..Len(hist.ranWith) : hist.ranWith[i] = heap[allRunOptions[i]]

\* the third run is in flight with a patch applied, after two patched runs
C9_Witness ==
    /\ pc = "running" /\ hist.started = <<1, 2, 3>> /\ hist.nReturned = 2
    /\ hist.ranWith[2].spec # hist.ranWith[1].spec
    /\ hist.ranWith[3].spec # hist.ranWith[2].spec
    /\ hist.ranWith[3].spec # hist.ranWith[1].spec

\* the N option objects exist, are distinct objects, and are not the parsed options
C10_State ==
    /\ heap[optionsRef] \in ParsedOptions
    /\ (pc = "parsed" => hist.started = <<>> /\ allRunOptions = <<>>)
    /\ (pc # "parsed"
          => /\ Len(allRunOptions) = repeatNtimes
             /\ Len(heap) = repeatNtimes + 1
             /\ \A i \in 1..Len(allRunOptions) :
                  /\ allRunOptions[i] \in 2..Len(heap)
                  /\ \A j \in 1..Len(allRunOptions) :
                       allRunOptions[i] = allRunOptions[j] => i = j)

(* C10: exactly N option objects are built before any run starts, they are distinct
   from each other and from the parsed options, and a rerun patch changes the spec
   of the next run's options and nothing else *)
C10_IndependentOptions ==
    /\ C10_State
    /\ [][ /\ C10_State'
           /\ pc # "parsed" =>
                /\ allRunOptions' = allRunOptions
                /\ Len(heap') = Len(heap)
                /\ \A r \in 1..Len(heap) :
                     heap'[r] # heap[r] =>
                        /\ pc = "running" /\ k + 2 <= Len(allRunOptions)
                        /\ r = allRunOptions[k + 2]
                        /\ heap'[r] = [heap[r] EXCEPT !.spec = heap'[r].spec] ]_vars

\* the options of run 2 of 3 were patched; runs 1 and 3 and the parsed options keep
\* the spec they were built with
C10_Witness ==
    /\ repeatNtimes = 3 /\ pc = "mapSeries" /\ k = 1
    /\ heap[allRunOptions[2]].spec = <<"a.cy.js">>
    /\ heap[allRunOptions[1]].spec = heap[optionsRef].spec
    /\ heap[allRunOptions[3]].spec = heap[optionsRef].spec

(* C11: the options of the run at position i carry cypress_repeat_n = N and
   cypress_repeat_k = i with 1 <= i <= N, appended to the env entries of the parsed
   options, both as built and as handed to cypress.run *)
C11_EnvIdentifiers ==
    /\ pc # "parsed" =>
         \A i \in 1..Len(allRunOptions) :
            heap[allRunOptions[i]].env =
                heap[optionsRef].env \o <<[key |-> "cypress_repeat_n", val |-> repeatNtimes],
                                          [key |-> "cypress_repeat_k", val |-> i]>>
    /\ \A i \in 1..Len(hist.ranWith) :
         /\ 1 <= hist.started[i] /\ hist.started[i] <= repeatNtimes
         /\ hist.ranWith[i].env =
                heap[optionsRef].env \o <<[key |-> "cypress_repeat_n", val |-> repeatNtimes],
                                          [key |-> "cypress_repeat_k", val |-> hist.started[i]]>>

\* the third of three runs is started with FOO=1 kept in front of n=3, k=3
C11_Witness ==
    /\ pc = "running" /\ hist.started = <<1, 2, 3>>
    /\ hist.ranWith[3].env = <<[key |-> "FOO", val |-> 1],
                               [key |-> "cypress_repeat_n", val |-> 3],
                               [key |-> "cypress_repeat_k", val |-> 3]>>

\* the run after the latest result has been started or is about to be
NextRunGoesOn == pc = "mapSeries" \/ Len(hist.started) > hist.nReturned

(* C12 as stated: with --rerun-failed-only, after a non-final result without failed
   spec, no further run is started when --force is unset, and the next run goes on
   when --force is set *)
C12_NoFailedSpecsStopsUnlessForce ==
    (rerunFailedOnly /\ hist.lastFailing = Some({}))
        => IF ~forceContinue THEN NoLaterRun ELSE NextRunGoesOn

(* C12 amended: with --rerun-failed-only, after a non-final result without failed
   spec, the next run always goes on when --force is unset; when --force is set it
   goes on unless --until-passes ends the loop on a result without failed tests *)
C12_NoFailedSpecsGoesOn ==
    (rerunFailedOnly /\ hist.lastFailing = Some({}))
        => IF ~forceContinue
           THEN NextRunGoesOn
           ELSE \/ NextRunGoesOn
                \/ /\ untilPasses
                   /\ hist.everZeroFailed
                   /\ rejection = Some("No failures detected, exiting with success.")

\* without --force the second run is in flight after a first result without failed spec
C12_Witness ==
    /\ rerunFailedOnly /\ ~forceContinue /\ repeatNtimes = 3
    /\ pc = "running" /\ hist.started = <<1, 2>> /\ hist.lastFailing = Some({})
    /\ hist.ranWith[2].spec = heap[optionsRef].spec

(* C13: in every mode, once a result has status failed with failures, anyTestFailed
   is set; without --force no further run is started and the ended chain announces
   the exit with failure; with --force the result does not end the loop (stated for
   the first result of several runs) *)
C13_FailedStatusObserved ==
    hist.everStatusFailed
        => /\ anyTestFailed
           /\ ~forceContinue => NoLaterRun /\ (pc = "done" => ReportsFailure)
           /\ (forceContinue /\ hist.nReturned = 1 /\ repeatNtimes > 1 /\ hist.threwAt = 0)
                 => rejection = Undefined

(* C14: without --until-passes, when some result showed failed tests, anyTestFailed
   is true when the finally block has run, which then reports that some tests failed
   and not that the runs finished successfully *)
C14_FailedTestsFlagged ==
    (~untilPasses /\ hist.everFailedTests /\ pc \in {"catch", "done"})
        => /\ anyTestFailed
           /\ "Exiting with failure due to test failures." \in Range(console)
           /\ ~ReportsSuccess

(* C15: with --until-passes alone, when every result is finished with failed tests,
   the runs 1..N are all made, the last one rejects with 'No more attempts left' and
   the ended chain announces the exit with failure *)
C15_UntilPassesExhausted ==
    (untilPasses /\ ~rerunFailedOnly /\ ~forceContinue /\ hist.threwAt = 0
       /\ ~hist.everZeroFailed /\ ~hist.everStatusFailed)
        => /\ hist.started = UpTo(Len(hist.started))
           /\ pc \in {"finally", "catch", "done"}
                => /\ hist.nReturned = repeatNtimes
                   /\ hist.started = UpTo(repeatNtimes)
                   /\ rejection = Some("No more attempts left")
           /\ pc = "done" => ReportsFailure

\* three failing runs were made and the chain ended with the exit with failure
C15_Witness ==
    /\ untilPasses /\ ~rerunFailedOnly /\ ~forceContinue /\ repeatNtimes = 3
    /\ pc = "done" /\ hist.nReturned = 3 /\ totalFailed = 3
    /\ ~hist.everZeroFailed /\ ~hist.everStatusFailed
    /\ rejection = Some("No more attempts left") /\ ReportsFailure

\* the loop was ended by the status block (status failed with failures, no --force)
StoppedByStatus == rejection = Some("Test results indicate failures")
\* the loop was ended by reading the runs of a result that has none
StoppedByTypeError ==
    rejection = Some("Cannot read properties of undefined (reading 'filter')")
\* the loop was ended by --until-passes on a result without failed tests
StoppedByPass == rejection = Some("No failures detected, exiting with success.")

(* C16: with --rerun-failed-only alone, a non-final result with failed specs that is
   not stopped for its failed status never ends the loop, the next run goes on; the
   loop is ended for failed tests only by the result of the final run N *)
C16_RerunDefersFailure ==
    (rerunFailedOnly /\ ~untilPasses /\ ~forceContinue)
        => /\ (hist.lastFailing # Undefined /\ hist.lastFailing # Some({})
                 /\ ~StoppedByStatus) => NextRunGoesOn
           /\ rejection = Some("Failures detected and conditions met")
                => hist.nReturned = repeatNtimes /\ hist.everFailedTests

\* two failing runs went on and the third, restricted, ended the loop for failed tests
C16_Witness ==
    /\ rerunFailedOnly /\ ~untilPasses /\ ~forceContinue /\ repeatNtimes = 3
    /\ pc = "done" /\ hist.nReturned = 3 /\ totalFailed = 3
    /\ hist.ranWith[2].spec = <<"a.cy.js", ",", "b.cy.js">>
    /\ hist.ranWith[3].spec = <<"a.cy.js">>
    /\ rejection = Some("Failures detected and conditions met")

(* C17 as stated: with --force, in every mode, when cypress.run never rejects (and
   every result read for its runs has them), all N runs are started: the chain
   settles only after N results *)
C17_ForceRunsAll ==
    (forceContinue /\ hist.threwAt = 0 /\ ~StoppedByTypeError
       /\ pc \in {"finally", "catch", "done"})
        => hist.nReturned = repeatNtimes /\ hist.started = UpTo(repeatNtimes)

(* C17 amended: with --force, when cypress.run never rejects, all N runs are started
   unless --until-passes ends the loop on a result without failed tests, or
   --rerun-failed-only reads the runs of a non-final result that has none *)
C17_ForceRunsAllUnlessPassed ==
    (forceContinue /\ hist.threwAt = 0 /\ pc \in {"finally", "catch", "done"})
        => \/ hist.nReturned = repeatNtimes /\ hist.started = UpTo(repeatNtimes)
                /\ (rejection # Undefined => untilPasses /\ StoppedByPass)
           \/ untilPasses /\ StoppedByPass /\ hist.everZeroFailed
           \/ rerunFailedOnly /\ StoppedByTypeError /\ hist.nReturned < repeatNtimes

\* with --force and --rerun-failed-only three runs are made through failed statuses
\* and failed tests
C17_Witness ==
    /\ forceContinue /\ ~untilPasses /\ rerunFailedOnly /\ repeatNtimes = 3
    /\ pc = "done" /\ hist.nReturned = 3 /\ hist.everStatusFailed /\ totalFailed = 3
    /\ rejection = Undefined

(* C18: with --until-passes and --rerun-failed-only, once a non-final finished result
   shows no failed test and no failed spec (and none before showed failed tests), no
   further run is started *)
C18_UntilPassesWithRerunStops ==
    (untilPasses /\ rerunFailedOnly /\ hist.lastFailing = Some({})
       /\ hist.everPassed /\ ~hist.everFailedTests /\ ~hist.everStatusFailed)
        => NoLaterRun

(* C19: with --rerun-failed-only, a run that follows a result without failed spec is
   started with the spec the options were built with, also when the run before was
   restricted; and the options beyond the next run always keep the spec they were
   built with *)
C19_NoCarryOver ==
    (rerunFailedOnly /\ pc # "parsed")
        => /\ (pc = "running" /\ hist.lastFailing = Some({}))
                => hist.ranWith[Len(hist.ranWith)].spec = heap[optionsRef].spec
           /\ \A j \in 1..Len(allRunOptions) :
                j > hist.nReturned + 1 => heap[allRunOptions[j]].spec = heap[optionsRef].spec

\* the second run was restricted to a.cy.js and reported no failed spec; the third
\* run is started with the spec of the parsed options
C19_Witness ==
    /\ rerunFailedOnly /\ repeatNtimes = 3 /\ pc = "running" /\ hist.started = <<1, 2, 3>>
    /\ hist.ranWith[2].spec = <<"a.cy.js">>
    /\ hist.lastFailing = Some({})
    /\ hist.ranWith[3].spec = <<"cypress/e2e/**">>

(* C20: when every call of cypress.run settles, the chain reaches its end, and at
   most N runs are started, each index at most once *)
C20_Terminates ==
    /\ <>(pc = "done")
    /\ [][ /\ Len(hist.started') <= repeatNtimes
           /\ \A i, j \in 1..Len(hist.started') :
                hist.started'[i] = hist.started'[j] => i = j ]_vars

\* the chain ended after three runs of three
C20_Witness ==
    /\ pc = "done" /\ repeatNtimes = 3 /\ hist.started = <<1, 2, 3>> /\ hist.inFlight = 0
====
